---------------------------- MODULE Spec2Model ----------------------------
(* Skip list of db/skiplist.h: one writer running Insert one memory access *)
(* at a time, and a reader running Contains and the iterator operations    *)
(* one link load at a time.  A node is named by the key it was built with  *)
(* (keys are unique: a duplicate Insert takes the assertion); the head is  *)
(* the node built with key 0.  Readers never write shared state, so one    *)
(* reader shows everything any number of them can observe.  Node memory    *)
(* comes from the arena of util/arena.cc, which is also driven on its own  *)
(* by sequences of Allocate and AllocateAligned calls.                     *)
EXTENDS Integers, Sequences, FiniteSets, TLC

\* ----------------------------------------------------------------- bounds
\* Keys passed to Insert, and the targets of Seek and Contains, are
\* 1..MaxKey: with every subset of them insertable, a target meets every
\* case (present, absent, below all keys, above all keys).
MaxKey == 3
\* RandomHeight draws are enumerated up to this height (never above kMaxHeight).
MaxDrawn == 2
\* Calls made on an arena driven on its own.
MaxAllocs == 4

\* -------------------------------------------------------------- constants
kMaxHeight == 12
kBlockSize == 4096
\* sizeof(void *), sizeof(char *) and sizeof(atomic<Node *>).
PointerBytes == 8
\* sizeof(Key) of the list under test (uint64_t).
KeyBytes == 8

\* The head node, built with key 0 ("any key will do").
head == 0
nullptr == -1
\* A link slot of arena memory that no SetNext has written yet.
UNINIT == -2

Keys == 1..MaxKey
Targets == Keys
Levels == 0..(kMaxHeight - 1)

VARIABLES
    next,        \* next[n][L]: link slot L of allocated node n (Node::_next)
    max_height,  \* SkipList::_max_height
    wpc,         \* writer: position inside Insert
    wkey,        \* writer: Insert's argument key
    prev,        \* writer: Insert's local prev[kMaxHeight]
    height,      \* writer: Insert's local height
    wi,          \* writer: index i of Insert's link loop
    rnd,         \* SkipList::_rnd: the number of times Random::Next has
                 \* run; _seed is its seed stepped that many times
    rpc,         \* reader: position inside the running operation
    rop,         \* reader: the operation running, or the last one run
    rkey,        \* reader: the key argument of the running search
    rcur,        \* reader: local cur of the running search
    rlevel,      \* reader: local level of the running search
    it_node,     \* reader: Iterator::_node
    rret,        \* reader: value returned by the last Contains or Valid
    snap,        \* reader: of the keys committed when the running search
                 \* began, the one it must find (the smallest >= target
                 \* for Seek), if any; for Contains, the key itself if
                 \* the level-0 links led to it when the search began
    arena,       \* the Arena: _alloc_ptr, _alloc_bytes_remaining,
                 \* _memory_usage and _blocks
    alast,       \* arena driver: the last call made, and what it gave
    returned     \* arena driver: the regions returned so far, in call order

vars == <<next, max_height, wpc, wkey, prev, height, wi, rnd,
          rpc, rop, rkey, rcur, rlevel, it_node, rret, snap,
          arena, alast, returned>>
wvars == <<next, max_height, wpc, wkey, prev, height, wi, rnd>>
rvars == <<rpc, rop, rkey, rcur, rlevel, it_node, rret, snap>>
avars == <<arena, alast, returned>>

\* ---------------------------------------------------------------- helpers
\* Nodes allocated so far (head included).
Allocated == DOMAIN next
\* Keys whose node NewNode has built.
nodes == Allocated \ {head}

\* Node::GetKey: the key the node was constructed with.
GetKey(n) == n

\* Node::Next(n): load of link slot n of the node; a slot past the node's
\* own array is memory the node does not own.
NodeNext(x, n) == IF n \in DOMAIN next[x] THEN next[x][n] ELSE UNINIT

\* Comparator: three-way comparison of two keys.
Compare(a, b) == IF a < b THEN -1 ELSE IF a > b THEN 1 ELSE 0

Equal(a, b) == Compare(a, b) = 0

\* KeyIsAfterNode with "<= 0" for "< 0": a node holding the key itself
\* counts as before the key.
KeyIsAfterNode_LE(key, n) == (n # nullptr) /\ (Compare(GetKey(n), key) <= 0)

KeyIsAfterNode(key, n) == (n # nullptr) /\ (Compare(GetKey(n), key) < 0)

\* A failed assertion ("abort") ends the process, and so, in this model,
\* does a load of an unwritten slot ("ub"): no thread takes a step after it.
Running == wpc \notin {"abort", "ub"} /\ rpc \notin {"abort", "ub"}

\* Keys whose Insert has returned.
Committed == IF wpc \in {"height", "alloc", "setnext", "publish"}
             THEN nodes \ {wkey} ELSE nodes


\* ----------------------------------------------------------------- search
\* The locals of a running search: cur, level, whether it has returned
\* (done) and what (ret), and the caller's prev array.
SearchStart(h, prevArr) ==
    [cur |-> head, level |-> h - 1, done |-> FALSE, ret |-> nullptr,
     prev |-> prevArr]

\* One iteration of the while loop of FindGreaterOrEqual(key, prev);
\* withPrev is "prev != nullptr".  A load of an unwritten slot has no
\* defined value: the search stops with ret = UNINIT.
FGEIter(key, s, withPrev) ==
    LET nxt == NodeNext(s.cur, s.level)
    IN  IF nxt = UNINIT THEN [s EXCEPT !.done = TRUE, !.ret = UNINIT]
        ELSE IF KeyIsAfterNode(key, nxt) THEN [s EXCEPT !.cur = nxt]
        ELSE LET t == IF withPrev THEN [s EXCEPT !.prev[s.level] = s.cur]
                      ELSE s
             IN  IF s.level = 0 THEN [t EXCEPT !.done = TRUE, !.ret = nxt]
                 ELSE [t EXCEPT !.level = @ - 1]

\* One iteration of the while loop of FindLessThan(key).
FLTIter(key, s) ==
    LET nxt == NodeNext(s.cur, s.level)
    IN  IF nxt = UNINIT THEN [s EXCEPT !.done = TRUE, !.ret = UNINIT]
        ELSE IF KeyIsAfterNode(key, nxt) THEN [s EXCEPT !.cur = nxt]
        ELSE IF s.level = 0 THEN [s EXCEPT !.done = TRUE, !.ret = s.cur]
        ELSE [s EXCEPT !.level = @ - 1]

\* One iteration of the while loop of FindLast().
FindLastIter(s) ==
    LET nxt == NodeNext(s.cur, s.level)
    IN  IF nxt = UNINIT THEN [s EXCEPT !.done = TRUE, !.ret = UNINIT]
        ELSE IF nxt # nullptr THEN [s EXCEPT !.cur = nxt]
        ELSE IF s.level = 0 THEN [s EXCEPT !.done = TRUE, !.ret = s.cur]
        ELSE [s EXCEPT !.level = @ - 1]

\* More iterations than any search over MaxKey nodes and kMaxHeight levels
\* takes; a search that has not returned by then is looping.
SearchFuel == kMaxHeight + MaxKey + 2

RECURSIVE RunFGE(_, _, _, _)
RunFGE(key, s, withPrev, fuel) ==
    IF s.done THEN s
    ELSE IF fuel = 0 THEN [s EXCEPT !.done = TRUE, !.ret = UNINIT]
    ELSE RunFGE(key, FGEIter(key, s, withPrev), withPrev, fuel - 1)

RECURSIVE RunFLT(_, _, _)
RunFLT(key, s, fuel) ==
    IF s.done THEN s
    ELSE IF fuel = 0 THEN [s EXCEPT !.done = TRUE, !.ret = UNINIT]
    ELSE RunFLT(key, FLTIter(key, s), fuel - 1)

RECURSIVE RunFindLast(_, _)
RunFindLast(s, fuel) ==
    IF s.done THEN s
    ELSE IF fuel = 0 THEN [s EXCEPT !.done = TRUE, !.ret = UNINIT]
    ELSE RunFindLast(FindLastIter(s), fuel - 1)

NoPrev == <<>>
\* Node *prev[kMaxHeight] = { nullptr }
EmptyPrev == [l \in Levels |-> nullptr]

\* The three searches run to their return on the present links, started
\* from height h (the value GetMaxHeight() gave the caller).
FindGreaterOrEqual(key, h) ==
    RunFGE(key, SearchStart(h, NoPrev), FALSE, SearchFuel).ret

FindLessThan(key, h) == RunFLT(key, SearchStart(h, NoPrev), SearchFuel).ret

FindLast(h) == RunFindLast(SearchStart(h, NoPrev), SearchFuel).ret

\* ------------------------------------------------------------------- arena
\* Addresses are byte numbers; the null char pointer is address 0.
NullAddr == 0

\* operator new[] gives storage aligned to at least this many bytes.
BlockAlign == 8

\* Arena::Arena(): no block, null cursor, nothing remaining, usage 0.
\* A block of _blocks is kept as its first address and its size.
NewArena ==
    [_alloc_ptr |-> NullAddr, _alloc_bytes_remaining |-> 0,
     _memory_usage |-> 0, _blocks |-> <<>>]

\* One past the last byte of a block.
BlockEnd(b) == b.start + b.size

\* new char[block_bytes]: storage above every block the arena holds (no
\* block is deleted while the arena lives), BlockAlign-aligned, not
\* touching the block below it.
NewChars(a) ==
    LET top == IF a._blocks = <<>> THEN NullAddr
               ELSE BlockEnd(a._blocks[Len(a._blocks)])
    IN  ((top \div BlockAlign) + 2) * BlockAlign

\* What a call gives back: the arena after it, the pointer returned, and
\* ok = FALSE when an assertion of the call failed (no pointer returned).
\* Request sizes stay far below the range of size_t, so no sum of sizes
\* wraps.
Returns(a, p) == [arena |-> a, result |-> p, ok |-> TRUE]

Aborts(a) == [arena |-> a, result |-> NullAddr, ok |-> FALSE]

\* AllocateNewBlock with "_memory_usage = ..." for "_memory_usage += ...".
AllocateNewBlock_UsageAssigned(a, block_bytes) ==
    LET result == NewChars(a)
    IN  Returns([a EXCEPT
                   !._blocks = Append(@, [start |-> result, size |-> block_bytes]),
                   !._memory_usage = block_bytes + PointerBytes],
                result)

AllocateNewBlock(a, block_bytes) ==
    LET result == NewChars(a)
    IN  Returns([a EXCEPT
                   !._blocks = Append(@, [start |-> result, size |-> block_bytes]),
                   !._memory_usage = @ + block_bytes + PointerBytes],
                result)

\* AllocateFallBack moving the cursor to the end of a dedicated block.
AllocateFallBack_DedicatedBecomesCurrent(a, bytes) ==
    IF bytes > kBlockSize \div 4
    THEN LET nb == AllocateNewBlock(a, bytes)
         IN  Returns([nb.arena EXCEPT
                        !._alloc_ptr = nb.result + bytes,
                        !._alloc_bytes_remaining = 0],
                     nb.result)
    ELSE LET nb == AllocateNewBlock(a, kBlockSize)
         IN  Returns([nb.arena EXCEPT
                        !._alloc_ptr = nb.result + bytes,
                        !._alloc_bytes_remaining = kBlockSize - bytes],
                     nb.result)

\* AllocateFallBack without "_alloc_bytes_remaining -= bytes".
AllocateFallBack_RemainingNotReduced(a, bytes) ==
    IF bytes > kBlockSize \div 4
    THEN AllocateNewBlock(a, bytes)
    ELSE LET nb == AllocateNewBlock(a, kBlockSize)
         IN  Returns([nb.arena EXCEPT
                        !._alloc_ptr = nb.result + bytes,
                        !._alloc_bytes_remaining = kBlockSize],
                     nb.result)

AllocateFallBack(a, bytes) ==
    IF bytes > kBlockSize \div 4
    THEN AllocateNewBlock(a, bytes)
    ELSE LET nb == AllocateNewBlock(a, kBlockSize)
         IN  Returns([nb.arena EXCEPT
                        !._alloc_ptr = nb.result + bytes,
                        !._alloc_bytes_remaining = kBlockSize - bytes],
                     nb.result)

\* Allocate taking the bytes from the block without moving the cursor.
Allocate_KeepsCursor(a, bytes) ==
    IF ~(bytes > 0) THEN Aborts(a)
    ELSE IF bytes <= a._alloc_bytes_remaining
    THEN Returns([a EXCEPT !._alloc_bytes_remaining = @ - bytes],
                 a._alloc_ptr)
    ELSE AllocateFallBack(a, bytes)

Allocate(a, bytes) ==
    IF ~(bytes > 0) THEN Aborts(a)
    ELSE IF bytes <= a._alloc_bytes_remaining
    THEN Returns([a EXCEPT !._alloc_ptr = @ + bytes,
                           !._alloc_bytes_remaining = @ - bytes],
                 a._alloc_ptr)
    ELSE AllocateFallBack(a, bytes)

\* AllocateAligned with "padding = offset" for "padding = align - offset".
AllocateAligned_PaddingIsOffset(a, bytes) ==
    LET align == IF PointerBytes > 8 THEN PointerBytes ELSE 8
        offset == a._alloc_ptr % align
        padding == offset
        actual_bytes == bytes + padding
        r == IF actual_bytes <= a._alloc_bytes_remaining
             THEN Returns([a EXCEPT !._alloc_ptr = @ + actual_bytes,
                                    !._alloc_bytes_remaining = @ - actual_bytes],
                          a._alloc_ptr + padding)
             ELSE AllocateFallBack(a, bytes)
    IN  IF r.result % align = 0 THEN r ELSE Aborts(r.arena)

\* The last assert of AllocateAligned is the ok of what it gives back.
AllocateAligned(a, bytes) ==
    LET align == IF PointerBytes > 8 THEN PointerBytes ELSE 8
        offset == a._alloc_ptr % align
        padding == IF offset = 0 THEN 0 ELSE align - offset
        actual_bytes == bytes + padding
        r == IF actual_bytes <= a._alloc_bytes_remaining
             THEN Returns([a EXCEPT !._alloc_ptr = @ + actual_bytes,
                                    !._alloc_bytes_remaining = @ - actual_bytes],
                          a._alloc_ptr + padding)
             ELSE AllocateFallBack(a, bytes)
    IN  IF r.result % align = 0 THEN r ELSE Aborts(r.arena)

\* Arena::MemoryUsage.
MemoryUsage(a) == a._memory_usage

\* sizeof(Node) + sizeof(atomic<Node *>) * (height - 1): the node holds its
\* key and one link slot, and the other slots lie behind it.
NodeBytes(h) == (KeyBytes + PointerBytes) + PointerBytes * (h - 1)

\* ------------------------------------------------------------------ writer
\* Heights RandomHeight can return: 1, raised once per successful
\* OneIn(kBranching) draw while below kMaxHeight.
RandomHeight == {h \in 1..kMaxHeight : h <= MaxDrawn}

\* The calls of _rnd.OneIn a RandomHeight returning h makes: the h - 1
\* that raise the height, and the one that ends the loop unless the
\* height has reached kMaxHeight.
Draws(h) == IF h < kMaxHeight THEN h ELSE kMaxHeight - 1

WriterIdle ==
    /\ wpc' = "idle"
    /\ wkey' = 0
    /\ prev' = EmptyPrev
    /\ height' = 0
    /\ wi' = 0

\* InsertStart with the assertion compiled out.
InsertStart_NoAssert(key) ==
    /\ Running
    /\ wpc = "idle"
    /\ LET s == RunFGE(key, SearchStart(max_height, EmptyPrev), TRUE, SearchFuel)
       IN  /\ prev' = s.prev
           /\ wpc' = IF s.ret = UNINIT THEN "ub" ELSE "height"
    /\ wkey' = key
    /\ UNCHANGED <<next, max_height, height, wi>>
    /\ UNCHANGED rnd
    /\ UNCHANGED rvars
    /\ UNCHANGED avars

\* Insert(key), up to the assertion: the search that fills prev, then
\* assert(node == nullptr || !Equal(node->GetKey(), key)).
InsertStart(key) ==
    /\ Running
    /\ wpc = "idle"
    /\ LET s == RunFGE(key, SearchStart(max_height, EmptyPrev), TRUE, SearchFuel)
       IN  /\ prev' = s.prev
           /\ wpc' = IF s.ret = UNINIT THEN "ub"
                     ELSE IF s.ret # nullptr /\ Equal(GetKey(s.ret), key)
                          THEN "abort"
                     ELSE "height"
    /\ wkey' = key
    /\ UNCHANGED <<next, max_height, height, wi>>
    /\ UNCHANGED rnd
    /\ UNCHANGED rvars
    /\ UNCHANGED avars

\* InsertHeight without the test "height > GetMaxHeight()".
InsertHeight_AlwaysAssigns(h) ==
    /\ Running
    /\ wpc = "height"
    /\ height' = h
    /\ prev' = [l \in Levels |->
                  IF l >= max_height /\ l < h THEN head ELSE prev[l]]
    /\ max_height' = h
    /\ wpc' = "alloc"
    /\ UNCHANGED <<next, wkey, wi>>
    /\ rnd' = rnd + Draws(h)
    /\ UNCHANGED rvars
    /\ UNCHANGED avars

\* int height = RandomHeight(); if (height > GetMaxHeight()) { ... }
InsertHeight(h) ==
    /\ Running
    /\ wpc = "height"
    /\ height' = h
    /\ IF h > max_height
       THEN /\ prev' = [l \in Levels |->
                          IF l >= max_height /\ l < h THEN head ELSE prev[l]]
            /\ max_height' = h
       ELSE UNCHANGED <<prev, max_height>>
    /\ wpc' = "alloc"
    /\ UNCHANGED <<next, wkey, wi>>
    /\ rnd' = rnd + Draws(h)
    /\ UNCHANGED rvars
    /\ UNCHANGED avars

\* InsertNewNode followed by a link loop that starts at level 1.
InsertNewNode_LoopFromOne ==
    /\ Running
    /\ wpc = "alloc"
    /\ arena' = AllocateAligned(arena, NodeBytes(height)).arena
    /\ next' = [n \in Allocated \cup {wkey} |->
                  IF n = wkey THEN [l \in 0..(height - 1) |-> UNINIT]
                  ELSE next[n]]
    /\ IF height > 1
       THEN /\ wi' = 1
            /\ wpc' = "setnext"
            /\ UNCHANGED <<wkey, prev, height>>
       ELSE WriterIdle
    /\ UNCHANGED max_height
    /\ UNCHANGED rnd
    /\ UNCHANGED rvars
    /\ UNCHANGED <<alast, returned>>

\* InsertNewNode asking the arena twice for the node's bytes.
InsertNewNode_AllocatesTwice ==
    /\ Running
    /\ wpc = "alloc"
    /\ LET q == AllocateAligned(arena, NodeBytes(height))
           r == AllocateAligned(q.arena, NodeBytes(height))
       IN  /\ arena' = r.arena
           /\ IF r.ok
              THEN /\ next' = [n \in Allocated \cup {wkey} |->
                                 IF n = wkey
                                 THEN [l \in 0..(height - 1) |-> UNINIT]
                                 ELSE next[n]]
                   /\ wi' = 0
                   /\ wpc' = "setnext"
              ELSE /\ wpc' = "abort"
                   /\ UNCHANGED <<next, wi>>
    /\ UNCHANGED <<max_height, wkey, prev, height>>
    /\ UNCHANGED rnd
    /\ UNCHANGED rvars
    /\ UNCHANGED <<alast, returned>>

\* node = NewNode(key, height): one AllocateAligned call for the node and
\* its height link slots, none of them written.
InsertNewNode ==
    /\ Running
    /\ wpc = "alloc"
    /\ LET r == AllocateAligned(arena, NodeBytes(height))
       IN  /\ arena' = r.arena
           /\ IF r.ok
              THEN /\ next' = [n \in Allocated \cup {wkey} |->
                                 IF n = wkey
                                 THEN [l \in 0..(height - 1) |-> UNINIT]
                                 ELSE next[n]]
                   /\ wi' = 0
                   /\ wpc' = "setnext"
              ELSE /\ wpc' = "abort"
                   /\ UNCHANGED <<next, wi>>
    /\ UNCHANGED <<max_height, wkey, prev, height>>
    /\ UNCHANGED rnd
    /\ UNCHANGED rvars
    /\ UNCHANGED <<alast, returned>>

\* InsertSetNext writing nullptr for the predecessor's successor.
InsertSetNext_DropsSuccessor ==
    /\ Running
    /\ wpc = "setnext"
    /\ next' = [next EXCEPT ![wkey][wi] = nullptr]
    /\ wpc' = "publish"
    /\ UNCHANGED <<max_height, wkey, prev, height, wi>>
    /\ UNCHANGED rnd
    /\ UNCHANGED rvars
    /\ UNCHANGED avars

\* InsertSetNext writing slot 0 of the new node at every level.
InsertSetNext_Level0Only ==
    /\ Running
    /\ wpc = "setnext"
    /\ next' = [next EXCEPT ![wkey][0] = NodeNext(prev[wi], wi)]
    /\ wpc' = "publish"
    /\ UNCHANGED <<max_height, wkey, prev, height, wi>>
    /\ UNCHANGED rnd
    /\ UNCHANGED rvars
    /\ UNCHANGED avars

\* InsertSetNext taking the successor from the head, not from prev[i].
InsertSetNext_FromHead ==
    /\ Running
    /\ wpc = "setnext"
    /\ next' = [next EXCEPT ![wkey][wi] = NodeNext(head, wi)]
    /\ wpc' = "publish"
    /\ UNCHANGED <<max_height, wkey, prev, height, wi>>
    /\ UNCHANGED rnd
    /\ UNCHANGED rvars
    /\ UNCHANGED avars

\* node->SetNext(i, prev[i]->Next(i))
InsertSetNext ==
    /\ Running
    /\ wpc = "setnext"
    /\ IF prev[wi] \in Allocated /\ NodeNext(prev[wi], wi) # UNINIT
       THEN /\ next' = [next EXCEPT ![wkey][wi] = NodeNext(prev[wi], wi)]
            /\ wpc' = "publish"
       ELSE /\ wpc' = "ub"
            /\ UNCHANGED next
    /\ UNCHANGED <<max_height, wkey, prev, height, wi>>
    /\ UNCHANGED rnd
    /\ UNCHANGED rvars
    /\ UNCHANGED avars

\* prev[i]->SetNext(i, node); i++; and the return when i reaches height.
InsertPublish ==
    /\ Running
    /\ wpc = "publish"
    /\ next' = [next EXCEPT ![prev[wi]][wi] = wkey]
    /\ IF wi + 1 < height
       THEN /\ wi' = wi + 1
            /\ wpc' = "setnext"
            /\ UNCHANGED <<wkey, prev, height>>
       ELSE WriterIdle
    /\ UNCHANGED max_height
    /\ UNCHANGED rnd
    /\ UNCHANGED rvars
    /\ UNCHANGED avars

Writer ==
    \/ \E key \in Keys : InsertStart(key)
    \/ \E h \in RandomHeight : InsertHeight(h)
    \/ InsertNewNode
    \/ InsertSetNext
    \/ InsertPublish

\* ------------------------------------------- the writer of db/skiplist.cc
\* db/skiplist.cc defines Insert and FindGreaterOrEqual a second time;
\* the two differ from those of db/skiplist.h in what follows.

\* Node *prev[kMaxHeight]; with no initialiser: no entry is written.
UninitPrev == [l \in Levels |-> UNINIT]

\* One iteration of the while loop of skiplist.cc's FindGreaterOrEqual:
\* prev[level] is written when the search advances, with the node
\* advanced to, and not when it drops a level or returns.
FGEIter_cc(key, s, withPrev) ==
    LET nxt == NodeNext(s.cur, s.level)
    IN  IF nxt = UNINIT THEN [s EXCEPT !.done = TRUE, !.ret = UNINIT]
        ELSE IF KeyIsAfterNode(key, nxt)
        THEN IF withPrev THEN [s EXCEPT !.cur = nxt, !.prev[s.level] = nxt]
             ELSE [s EXCEPT !.cur = nxt]
        ELSE IF s.level = 0 THEN [s EXCEPT !.done = TRUE, !.ret = nxt]
        ELSE [s EXCEPT !.level = @ - 1]

RECURSIVE RunFGE_cc(_, _, _, _)
RunFGE_cc(key, s, withPrev, fuel) ==
    IF s.done THEN s
    ELSE IF fuel = 0 THEN [s EXCEPT !.done = TRUE, !.ret = UNINIT]
    ELSE RunFGE_cc(key, FGEIter_cc(key, s, withPrev), withPrev, fuel - 1)

\* What an entry of prev that nothing wrote can hold: the address of some
\* node, or a value that is no node's address (UNINIT).
Indeterminate == Allocated \cup {UNINIT}

\* skiplist.cc's Insert(key), up to the assertion.  The entries of prev
\* below _max_height that the search did not write hold indeterminate
\* values (those at and above _max_height are written before use or not
\* used).  Once links have gone through such values the search may miss
\* a node; a key whose node exists is inserted again only when the search
\* finds it (a node is named by its key).
InsertStart_cc(key) ==
    /\ Running
    /\ wpc = "idle"
    /\ LET s == RunFGE_cc(key, SearchStart(max_height, UninitPrev), TRUE,
                          SearchFuel)
       IN  /\ key \in nodes => s.ret = key
           /\ \E g \in [0..(max_height - 1) -> Indeterminate] :
                 prev' = [l \in Levels |->
                            IF s.prev[l] # UNINIT THEN s.prev[l]
                            ELSE IF l < max_height THEN g[l]
                            ELSE UNINIT]
           /\ wpc' = IF s.ret = UNINIT THEN "ub"
                     ELSE IF s.ret # nullptr /\ Equal(GetKey(s.ret), key)
                          THEN "abort"
                     ELSE "height"
    /\ wkey' = key
    /\ UNCHANGED <<next, max_height, height, wi>>
    /\ UNCHANGED rnd
    /\ UNCHANGED rvars
    /\ UNCHANGED avars

\* ------------------------------------------------- the sorted-set oracle
\* The test's model of the list is a std::set of the inserted keys; these
\* are its begin(), rbegin(), lower_bound and the neighbours of a key,
\* with nullptr for end().
MinOrNull(S) == IF S = {} THEN nullptr ELSE CHOOSE x \in S : \A y \in S : x <= y

MaxOrNull(S) == IF S = {} THEN nullptr ELSE CHOOSE x \in S : \A y \in S : x >= y

LowerBound(S, t) == MinOrNull({k \in S : k >= t})

After(S, p) == MinOrNull({k \in S : k > p})

Before(S, p) == MaxOrNull({k \in S : k < p})

\* The nodes met following level-L links from n, in order; a walk that
\* meets an unwritten slot or does not end is marked with UNINIT.
RECURSIVE Chain(_, _, _)
Chain(n, L, fuel) ==
    IF n = nullptr THEN <<>>
    ELSE IF n = UNINIT \/ fuel = 0 THEN <<UNINIT>>
    ELSE <<n>> \o Chain(NodeNext(n, L), L, fuel - 1)

LevelChain(L) == Chain(NodeNext(head, L), L, MaxKey + 1)

ChainSet(L) == LET c == LevelChain(L) IN {c[i] : i \in 1..Len(c)}

\* The nodes met following level-L links from n, as a set; the walk stops
\* at nullptr and at an unwritten slot.
RECURSIVE Reached(_, _, _)
Reached(n, L, fuel) ==
    IF n = nullptr \/ n = UNINIT \/ fuel = 0 THEN {}
    ELSE {n} \cup Reached(NodeNext(n, L), L, fuel - 1)

\* The nodes the level-L links lead to from the head.
OnLevel(L) == Reached(NodeNext(head, L), L, MaxKey + 1)

\* The level-0 links lead from n to the node of key k.
RECURSIVE Leads(_, _, _)
Leads(n, k, fuel) ==
    /\ n # nullptr
    /\ n # UNINIT
    /\ fuel > 0
    /\ n = k \/ Leads(NodeNext(n, 0), k, fuel - 1)

\* Key k has a node, and the level-0 links lead to it from the head.
IsLinked(k) == k \in nodes /\ Leads(NodeNext(head, 0), k, MaxKey + 1)

\* Keys whose node the level-0 links lead to from the head.
Linked == {k \in nodes : IsLinked(k)}

\* ------------------------------------------------------------------ reader
\* Values a reader's unsynchronised read of _max_height can give while the
\* writer runs: the present value or one the field held before.
StaleHeights == 1..max_height

\* The reader's search locals as a search record.
RSearch ==
    [cur |-> rcur, level |-> rlevel, done |-> FALSE, ret |-> nullptr,
     prev |-> NoPrev]

\* The reader enters a search: cur = _head, level = GetMaxHeight() - 1.
EnterSearch(op, pc, key, h) ==
    /\ rop' = op
    /\ rpc' = pc
    /\ rkey' = key
    /\ rcur' = head
    /\ rlevel' = h - 1
    /\ rret' = FALSE

\* The running search goes round its loop once more.
ContinueSearch(s) ==
    /\ rcur' = s.cur
    /\ rlevel' = s.level
    /\ UNCHANGED <<rpc, rop, rkey, it_node, rret, snap>>

\* The running operation returns (pc "idle"), or stops on an indeterminate
\* load (pc "ub") or on a failed assertion (pc "abort").
LeaveSearch(pc) ==
    /\ rpc' = pc
    /\ rcur' = head
    /\ rlevel' = 0
    /\ snap' = {}
    /\ UNCHANGED <<rop, rkey>>

\* Iterator::Seek(target), entry.
SeekBegin(target, h) ==
    /\ Running
    /\ rpc = "idle"
    /\ EnterSearch("Seek", "fge", target, h)
    /\ snap' = {k \in Committed : k = LowerBound(Committed, target)}
    /\ UNCHANGED it_node
    /\ UNCHANGED wvars
    /\ UNCHANGED avars

\* Contains(key), entry.
ContainsBegin(key, h) ==
    /\ Running
    /\ rpc = "idle"
    /\ EnterSearch("Contains", "fge", key, h)
    /\ snap' = {k \in {key} : IsLinked(k)}
    /\ UNCHANGED it_node
    /\ UNCHANGED wvars
    /\ UNCHANGED avars

\* One iteration of FindGreaterOrEqual(key, nullptr) that does not return.
FGELoop ==
    /\ Running
    /\ rpc = "fge"
    /\ LET s == FGEIter(rkey, RSearch, FALSE)
       IN  /\ ~s.done
           /\ ContinueSearch(s)
    /\ UNCHANGED wvars
    /\ UNCHANGED avars

\* The returning iteration inside Seek: _node = the node found.
SeekReturn ==
    /\ Running
    /\ rpc = "fge"
    /\ rop = "Seek"
    /\ LET s == FGEIter(rkey, RSearch, FALSE)
       IN  /\ s.done
           /\ IF s.ret = UNINIT
              THEN LeaveSearch("ub") /\ UNCHANGED it_node
              ELSE LeaveSearch("idle") /\ it_node' = s.ret
    /\ UNCHANGED rret
    /\ UNCHANGED wvars
    /\ UNCHANGED avars

\* Contains answering from the node found alone, without comparing its
\* key with the one sought.
ContainsReturn_AnyNode ==
    /\ Running
    /\ rpc = "fge"
    /\ rop = "Contains"
    /\ LET s == FGEIter(rkey, RSearch, FALSE)
       IN  /\ s.done
           /\ IF s.ret = UNINIT
              THEN LeaveSearch("ub") /\ UNCHANGED rret
              ELSE /\ LeaveSearch("idle")
                   /\ rret' = (s.ret # nullptr)
    /\ UNCHANGED it_node
    /\ UNCHANGED wvars
    /\ UNCHANGED avars

\* The returning iteration inside Contains:
\* return node != nullptr && Equal(node->GetKey(), key).
ContainsReturn ==
    /\ Running
    /\ rpc = "fge"
    /\ rop = "Contains"
    /\ LET s == FGEIter(rkey, RSearch, FALSE)
       IN  /\ s.done
           /\ IF s.ret = UNINIT
              THEN LeaveSearch("ub") /\ UNCHANGED rret
              ELSE /\ LeaveSearch("idle")
                   /\ rret' = (s.ret # nullptr /\ Equal(GetKey(s.ret), rkey))
    /\ UNCHANGED it_node
    /\ UNCHANGED wvars
    /\ UNCHANGED avars

\* Iterator::SeekToFirst: _node = _head->Next(0).
SeekToFirst ==
    /\ Running
    /\ rpc = "idle"
    /\ rop' = "SeekToFirst"
    /\ rkey' = 0
    /\ rret' = FALSE
    /\ IF NodeNext(head, 0) = UNINIT
       THEN rpc' = "ub" /\ UNCHANGED it_node
       ELSE rpc' = "idle" /\ it_node' = NodeNext(head, 0)
    /\ UNCHANGED <<rcur, rlevel, snap>>
    /\ UNCHANGED wvars
    /\ UNCHANGED avars

\* Iterator::Valid: return _node != nullptr.
IterValid ==
    /\ Running
    /\ rpc = "idle"
    /\ rop' = "Valid"
    /\ rkey' = 0
    /\ rret' = (it_node # nullptr)
    /\ UNCHANGED <<rpc, rcur, rlevel, it_node, snap>>
    /\ UNCHANGED wvars
    /\ UNCHANGED avars

\* Iterator::GetKey: assert(Valid()); return _node->GetKey().  The key
\* returned is GetKey(it_node).
IterGetKey ==
    /\ Running
    /\ rpc = "idle"
    /\ rop' = "GetKey"
    /\ rkey' = 0
    /\ rret' = FALSE
    /\ rpc' = IF it_node = nullptr THEN "abort" ELSE "idle"
    /\ UNCHANGED <<rcur, rlevel, it_node, snap>>
    /\ UNCHANGED wvars
    /\ UNCHANGED avars

\* IterNext with the assertion compiled out: the load goes through the
\* null _node.
IterNext_NoAssert ==
    /\ Running
    /\ rpc = "idle"
    /\ rop' = "Next"
    /\ rkey' = 0
    /\ rret' = FALSE
    /\ IF it_node = nullptr \/ NodeNext(it_node, 0) = UNINIT
       THEN rpc' = "ub" /\ UNCHANGED it_node
       ELSE rpc' = "idle" /\ it_node' = NodeNext(it_node, 0)
    /\ UNCHANGED <<rcur, rlevel, snap>>
    /\ UNCHANGED wvars
    /\ UNCHANGED avars

\* Iterator::Next: assert(Valid()); _node = _node->Next(0).
IterNext ==
    /\ Running
    /\ rpc = "idle"
    /\ rop' = "Next"
    /\ rkey' = 0
    /\ rret' = FALSE
    /\ IF it_node = nullptr
       THEN rpc' = "abort" /\ UNCHANGED it_node
       ELSE IF NodeNext(it_node, 0) = UNINIT
       THEN rpc' = "ub" /\ UNCHANGED it_node
       ELSE rpc' = "idle" /\ it_node' = NodeNext(it_node, 0)
    /\ UNCHANGED <<rcur, rlevel, snap>>
    /\ UNCHANGED wvars
    /\ UNCHANGED avars

\* Iterator::Prev, entry: assert(Valid()); FindLessThan(_node->GetKey()).
PrevBegin(h) ==
    /\ Running
    /\ rpc = "idle"
    /\ IF it_node = nullptr
       THEN /\ rop' = "Prev"
            /\ rpc' = "abort"
            /\ rkey' = 0
            /\ rret' = FALSE
            /\ UNCHANGED <<rcur, rlevel>>
       ELSE EnterSearch("Prev", "flt", GetKey(it_node), h)
    /\ UNCHANGED <<it_node, snap>>
    /\ UNCHANGED wvars
    /\ UNCHANGED avars

\* One iteration of FindLessThan that does not return.
FLTLoop ==
    /\ Running
    /\ rpc = "flt"
    /\ LET s == FLTIter(rkey, RSearch)
       IN  /\ ~s.done
           /\ ContinueSearch(s)
    /\ UNCHANGED wvars
    /\ UNCHANGED avars

\* The returning iteration inside Prev:
\* if (_node == _list->_head) _node = nullptr.
PrevReturn ==
    /\ Running
    /\ rpc = "flt"
    /\ LET s == FLTIter(rkey, RSearch)
       IN  /\ s.done
           /\ IF s.ret = UNINIT
              THEN LeaveSearch("ub") /\ UNCHANGED it_node
              ELSE /\ LeaveSearch("idle")
                   /\ it_node' = IF s.ret = head THEN nullptr ELSE s.ret
    /\ UNCHANGED rret
    /\ UNCHANGED wvars
    /\ UNCHANGED avars

\* Iterator::SeekToLast, entry.
SeekToLastBegin(h) ==
    /\ Running
    /\ rpc = "idle"
    /\ EnterSearch("SeekToLast", "last", 0, h)
    /\ UNCHANGED <<it_node, snap>>
    /\ UNCHANGED wvars
    /\ UNCHANGED avars

\* One iteration of FindLast that does not return.
FindLastLoop ==
    /\ Running
    /\ rpc = "last"
    /\ LET s == FindLastIter(RSearch)
       IN  /\ ~s.done
           /\ ContinueSearch(s)
    /\ UNCHANGED wvars
    /\ UNCHANGED avars

\* SeekToLastReturn without the test for the head.
SeekToLastReturn_KeepsHead ==
    /\ Running
    /\ rpc = "last"
    /\ LET s == FindLastIter(RSearch)
       IN  /\ s.done
           /\ IF s.ret = UNINIT
              THEN LeaveSearch("ub") /\ UNCHANGED it_node
              ELSE LeaveSearch("idle") /\ it_node' = s.ret
    /\ UNCHANGED rret
    /\ UNCHANGED wvars
    /\ UNCHANGED avars

\* The returning iteration inside SeekToLast.
SeekToLastReturn ==
    /\ Running
    /\ rpc = "last"
    /\ LET s == FindLastIter(RSearch)
       IN  /\ s.done
           /\ IF s.ret = UNINIT
              THEN LeaveSearch("ub") /\ UNCHANGED it_node
              ELSE /\ LeaveSearch("idle")
                   /\ it_node' = IF s.ret = head THEN nullptr ELSE s.ret
    /\ UNCHANGED rret
    /\ UNCHANGED wvars
    /\ UNCHANGED avars

\* ------------------------------------------------------- specifications
\* The driver of an arena has made no call yet.
NoCall == [op |-> "none", bytes |-> 0, result |-> NullAddr, ok |-> TRUE]

\* Arena::Arena, then SkipList::SkipList (the head node is the arena's
\* first allocation) and Iterator::Iterator.
Init ==
    /\ arena = AllocateAligned(NewArena, NodeBytes(kMaxHeight)).arena
    /\ alast = NoCall
    /\ returned = <<>>
    /\ next = [n \in {head} |-> [l \in Levels |-> nullptr]]
    /\ max_height = 1
    /\ wpc = "idle"
    /\ wkey = 0
    /\ prev = EmptyPrev
    /\ height = 0
    /\ wi = 0
    /\ rnd = 0
    /\ rpc = "idle"
    /\ rop = "none"
    /\ rkey = 0
    /\ rcur = head
    /\ rlevel = 0
    /\ it_node = nullptr
    /\ rret = FALSE
    /\ snap = {}

\* One writer thread and a reader thread, no synchronisation between them.
Next ==
    \/ Writer
    \/ \E t \in Targets, h \in StaleHeights : SeekBegin(t, h)
    \/ \E k \in Targets, h \in StaleHeights : ContainsBegin(k, h)
    \/ FGELoop
    \/ SeekReturn
    \/ ContainsReturn
    \/ SeekToFirst
    \/ IterNext
    \/ \E h \in StaleHeights : PrevBegin(h)
    \/ FLTLoop
    \/ PrevReturn
    \/ \E h \in StaleHeights : SeekToLastBegin(h)
    \/ FindLastLoop
    \/ SeekToLastReturn

Spec == Init /\ [][Next]_vars

\* The writer thread and a reader thread that calls Contains and
\* SeekToFirst only, no synchronisation between them.
NextLookup ==
    \/ Writer
    \/ \E k \in Targets, h \in StaleHeights : ContainsBegin(k, h)
    \/ FGELoop
    \/ ContainsReturn
    \/ SeekToFirst

SpecLookup == Init /\ [][NextLookup]_vars

\* Single-threaded use: an operation runs to its return before the next
\* one is called, and a read of _max_height gives the present value.
NextSeq ==
    \/ rpc = "idle" /\ \E key \in Keys : InsertStart(key)
    \/ \E h \in RandomHeight : InsertHeight(h)
    \/ InsertNewNode
    \/ InsertSetNext
    \/ InsertPublish
    \/ wpc = "idle" /\ \E t \in Targets : SeekBegin(t, max_height)
    \/ wpc = "idle" /\ \E k \in Targets : ContainsBegin(k, max_height)
    \/ FGELoop
    \/ SeekReturn
    \/ ContainsReturn
    \/ wpc = "idle" /\ SeekToFirst
    \/ wpc = "idle" /\ IterNext
    \/ wpc = "idle" /\ IterValid
    \/ wpc = "idle" /\ IterGetKey
    \/ wpc = "idle" /\ PrevBegin(max_height)
    \/ FLTLoop
    \/ PrevReturn
    \/ wpc = "idle" /\ SeekToLastBegin(max_height)
    \/ FindLastLoop
    \/ SeekToLastReturn

SpecSeq == Init /\ [][NextSeq]_vars

\* The writer thread alone, one memory access of Insert at a time: every
\* state of the links and of _max_height that any thread can observe.
NextWriter == Writer

SpecWriter == Init /\ [][NextWriter]_vars

\* ------------------------------------------------------- the arena alone
\* Sizes requested of an arena driven on its own: 0 (the assertion of
\* Allocate), 1 (leaves the cursor misaligned), 8, kBlockSize / 4 (the
\* largest size that opens a standard block), one more (the smallest that
\* gets a dedicated block), and 3000 (fits a fresh standard block once).
AllocSizes == {0, 1, 8, kBlockSize \div 4, kBlockSize \div 4 + 1, 3000}

\* The driver calls while no assertion has failed.
ArenaRunning == alast.ok /\ Len(returned) < MaxAllocs

\* The driver records a call: what was asked, what came back, and, when a
\* pointer came back, the region [result, result + bytes).
ArenaCall(op, bytes, r) ==
    /\ arena' = r.arena
    /\ alast' = [op |-> op, bytes |-> bytes, result |-> r.result, ok |-> r.ok]
    /\ returned' = IF r.ok
                   THEN Append(returned, [p |-> r.result, n |-> bytes])
                   ELSE returned
    /\ UNCHANGED wvars
    /\ UNCHANGED rvars

ArenaAllocate(bytes) ==
    /\ ArenaRunning
    /\ ArenaCall("Allocate", bytes, Allocate(arena, bytes))

ArenaAllocateAligned(bytes) ==
    /\ ArenaRunning
    /\ ArenaCall("AllocateAligned", bytes, AllocateAligned(arena, bytes))

\* Arena::Arena, and no list built on the arena.
InitArena ==
    /\ arena = NewArena
    /\ alast = NoCall
    /\ returned = <<>>
    /\ next = <<>>
    /\ max_height = 1
    /\ wpc = "idle"
    /\ wkey = 0
    /\ prev = EmptyPrev
    /\ height = 0
    /\ wi = 0
    /\ rnd = 0
    /\ rpc = "idle"
    /\ rop = "none"
    /\ rkey = 0
    /\ rcur = head
    /\ rlevel = 0
    /\ it_node = nullptr
    /\ rret = FALSE
    /\ snap = {}

NextArena ==
    \/ \E bytes \in AllocSizes : ArenaAllocate(bytes)
    \/ \E bytes \in AllocSizes : ArenaAllocateAligned(bytes)

SpecArena == InitArena /\ [][NextArena]_vars

\* The writer thread alone, running the Insert of db/skiplist.cc (its
\* lines after the assertion are those of db/skiplist.h).
NextCc ==
    \/ \E key \in Keys : InsertStart_cc(key)
    \/ \E h \in RandomHeight : InsertHeight(h)
    \/ InsertNewNode
    \/ InsertSetNext
    \/ InsertPublish

SpecCc == Init /\ [][NextCc]_vars

\* ----------------------------------------------------------------- claims
\* C1: single-threaded, SeekToFirst puts the iterator on the smallest
\* inserted key (invalid when there is none) and every Next on a valid
\* iterator moves it to the next larger inserted key, invalid after the
\* largest: the scan visits the inserted keys, each once, in increasing
\* order.
C1_ForwardScanSorted ==
    [][ /\ (SeekToFirst => rpc' = "idle" /\ it_node' = MinOrNull(nodes))
        /\ (IterNext /\ it_node # nullptr
              => rpc' = "idle" /\ it_node' = After(nodes, GetKey(it_node)))
      ]_vars

\* A scan of a list of MaxKey keys, some of them on level 1, has moved
\* with Next onto the largest key.
C1_Witness ==
    /\ rop = "Next"
    /\ rpc = "idle"
    /\ nodes = Keys
    /\ max_height > 1
    /\ it_node = MaxKey

\* C2: single-threaded, Contains(k) returns true exactly for the keys
\* that were inserted, for every k of the key range.
C2_ContainsIffInserted ==
    [][ContainsReturn => rpc' = "idle" /\ rret' = (rkey \in nodes)]_vars

\* Contains has returned true for a key in the middle of a two-level list.
C2_Witness ==
    /\ rop = "Contains"
    /\ rpc = "idle"
    /\ rret
    /\ rkey = 2
    /\ nodes = Keys
    /\ max_height > 1

\* C3: single-threaded, Seek(t) leaves the iterator on the smallest
\* inserted key >= t, and invalid when no inserted key is >= t.
C3_SeekIsLowerBound ==
    [][SeekReturn => rpc' = "idle" /\ it_node' = LowerBound(nodes, rkey)]_vars

\* Seek has stopped on a key larger than its target, past a smaller key.
C3_Witness ==
    /\ rop = "Seek"
    /\ rpc = "idle"
    /\ it_node # nullptr
    /\ rkey < GetKey(it_node)
    /\ \E k \in nodes : k < rkey
    /\ max_height > 1

\* C4: single-threaded, SeekToLast puts the iterator on the largest
\* inserted key (invalid when there is none) and every Prev moves it to
\* the largest inserted key below the current one, invalid exactly when
\* the current one is the smallest.
C4_BackwardScanSorted ==
    [][ /\ (SeekToLastReturn => rpc' = "idle" /\ it_node' = MaxOrNull(nodes))
        /\ (PrevReturn
              => /\ rpc' = "idle"
                 /\ it_node' = Before(nodes, GetKey(it_node))
                 /\ (it_node' = nullptr) = (GetKey(it_node) = MinOrNull(nodes)))
      ]_vars

\* Prev has moved the iterator onto the smallest key of a full two-level list.
C4_Witness ==
    /\ rop = "Prev"
    /\ rpc = "idle"
    /\ nodes = Keys
    /\ max_height > 1
    /\ it_node = 1

\* C5: with the writer inside Insert and the reader at any interleaving,
\* no load of a reader hits a link slot that Insert has not written: every
\* node a reader stands on, and the iterator's node, is the head, null or
\* a node built by Insert.
C5_ReaderLoadsWrittenLinks ==
    /\ rpc # "ub"
    /\ rcur \in Allocated
    /\ it_node \in nodes \cup {nullptr}

\* A search stands on the node being inserted, on level 0, while the
\* node's level-1 slot is still unwritten.
C5_Witness ==
    /\ rpc \in {"fge", "flt", "last"}
    /\ wpc \in {"setnext", "publish"}
    /\ rcur = wkey
    /\ rlevel = 0
    /\ NodeNext(wkey, 1) = UNINIT
    /\ height = 2

\* Nodes some link points to.
Referenced == {x \in nodes : \E n \in Allocated : \E l \in DOMAIN next[n] :
                                next[n][l] = x}

\* C6 as stated: a node that a predecessor's link points to has all its
\* own link slots, 0 to height-1, written.
C6_AllLinksBeforeAnyPublish ==
    \A x \in Referenced : \A l \in DOMAIN next[x] : next[x][l] # UNINIT

\* C6, amended: a node that a predecessor's level-l link points to has
\* its own slots 0 to l written (each level is initialised before that
\* level is published; higher slots may still be unwritten).
C6_LevelInitBeforeLevelPublish ==
    \A n \in Allocated : \A l \in DOMAIN next[n] :
        next[n][l] \in nodes
            => \A j \in 0..l : NodeNext(next[n][l], j) # UNINIT

\* The node under insertion, of height 2, has been published on level 1
\* by the last publish step but one: it is on level 0 and about to be
\* published on level 1 with slot 1 written.
C6_Witness ==
    /\ wpc = "publish"
    /\ wi = 1
    /\ height = 2
    /\ next[prev[0]][0] = wkey
    /\ next[wkey][1] # UNINIT
    /\ prev[1] # prev[0]

\* C7: a Seek(t) that began after Insert(k) returned, t <= k, ends on a
\* key <= k (snap holds the smallest such k, which bounds them all); a Next called on a key below k after Insert(k) returned ends
\* on a key <= k.  So the scan reaches k before any larger key and before
\* the end.
C7_NoCommittedKeySkipped ==
    [][ /\ (SeekReturn /\ rpc' = "idle"
              => \A k \in snap : it_node' # nullptr /\ GetKey(it_node') <= k)
        /\ (IterNext /\ rpc' = "idle"
              => \A k \in Committed : GetKey(it_node) < k
                    => it_node' # nullptr /\ GetKey(it_node') <= k)
      ]_vars

\* A Seek that began with a key committed has returned while the writer
\* is in the middle of linking another key below it.
C7_Witness ==
    /\ rop = "Seek"
    /\ rpc = "idle"
    /\ it_node # nullptr
    /\ wpc = "publish"
    /\ wkey < GetKey(it_node)
    /\ rkey <= wkey
    /\ Cardinality(nodes) = MaxKey

\* C8: Seek(t) ends invalid or on a key >= t, and Next ends invalid or on
\* a key above the one it was called on, whatever the writer does meanwhile.
C8_NeverBackwards ==
    [][ /\ (SeekReturn /\ rpc' = "idle"
              => it_node' = nullptr \/ GetKey(it_node') >= rkey)
        /\ (IterNext /\ rpc' = "idle"
              => it_node' = nullptr \/ GetKey(it_node') > GetKey(it_node))
      ]_vars

\* Next has moved the iterator onto the key the writer is still linking.
C8_Witness ==
    /\ rop = "Next"
    /\ rpc = "idle"
    /\ it_node = wkey
    /\ wpc = "setnext"
    /\ wi = 1
    /\ \E k \in nodes : k < wkey

\* C9: on the links of any reachable state, each of the three searches
\* returns the same node from every start height between 1 and the present
\* _max_height, also while _max_height is already raised and the new node
\* not yet linked.
C9_StaleHeightSameResult ==
    \A h \in StaleHeights :
        /\ \A t \in Targets :
              /\ FindGreaterOrEqual(t, h) = FindGreaterOrEqual(t, max_height)
              /\ FindLessThan(t, h) = FindLessThan(t, max_height)
        /\ FindLast(h) = FindLast(max_height)

\* Two start heights take different paths to the same node: the head's
\* level-1 link skips the first node of level 0, in the middle of an
\* Insert that has linked its node on level 0 only.
C9_Witness ==
    /\ wpc = "setnext"
    /\ wi = 1
    /\ max_height = 2
    /\ \E a \in nodes, b \in nodes :
          /\ a < b
          /\ NodeNext(head, 0) = a
          /\ NodeNext(head, 1) = b

\* C10: in every state, between the link steps of an Insert too, each
\* level's chain from the head holds built nodes only, ends in null, is
\* strictly increasing by key, and every node of the level-L chain is on
\* the level-(L-1) chain.
C10_LevelChainsSortedNested ==
    \A L \in Levels :
        LET c == LevelChain(L)
        IN  /\ \A i \in 1..Len(c) : c[i] \in nodes
            /\ \A i \in 1..(Len(c) - 1) : GetKey(c[i]) < GetKey(c[i + 1])
            /\ L >= 1 => ChainSet(L) \subseteq ChainSet(L - 1)

\* Between two link steps: the new node is on the level-0 chain, between
\* two nodes that are both on level 1, and not yet on level 1.
C10_Witness ==
    /\ wpc = "setnext"
    /\ wi = 1
    /\ LevelChain(0) = <<1, 2, 3>>
    /\ LevelChain(1) = <<1, 3>>
    /\ wkey = 2

\* C11: Insert(k) of a key whose node is already in the list ends on the
\* failed assertion, with no node allocated (the arena and the set of
\* nodes as before), no link written and _max_height as before; nothing
\* runs after the failed assertion.
C11_DuplicateInsertAborts ==
    [][ /\ \A key \in Keys :
              InsertStart(key) /\ key \in nodes
                  => /\ wpc' = "abort"
                     /\ UNCHANGED <<next, max_height, arena>>
        /\ (wpc = "abort" => UNCHANGED vars)
      ]_vars

\* Insert of a key that is on both levels of a two-level list has failed
\* its assertion.
C11_Witness ==
    /\ wpc = "abort"
    /\ wkey \in nodes
    /\ max_height = 2
    /\ wkey \in DOMAIN next
    /\ DOMAIN next[wkey] = 0..1


\* The bytes asked for by the calls that returned a region.
RECURSIVE SumBytes(_)
SumBytes(regions) ==
    IF regions = <<>> THEN 0
    ELSE regions[1].n + SumBytes(Tail(regions))

Requested == SumBytes(returned)

\* C12: over every sequence of Allocate and AllocateAligned calls, no call
\* lowers MemoryUsage(), and after every call MemoryUsage() is at least
\* the sum of the byte counts requested so far.
C12_UsageMonotoneCoversRequests ==
    [][ /\ MemoryUsage(arena') >= MemoryUsage(arena)
        /\ MemoryUsage(arena') >= Requested'
      ]_vars

\* MaxAllocs calls asking for more than a standard block in all have been
\* served from a standard block and from a dedicated block.
C12_Witness ==
    /\ Len(returned) = MaxAllocs
    /\ Requested > kBlockSize
    /\ \E i \in DOMAIN arena._blocks : arena._blocks[i].size = kBlockSize
    /\ \E i \in DOMAIN arena._blocks : arena._blocks[i].size # kBlockSize


\* The block allocated last.
LastBlock(a) == a._blocks[Len(a._blocks)]

\* C13 as stated: after every call that returned, cursor + remaining is
\* the end of the block that was allocated last.
C13_CursorInLastAllocatedBlock ==
    alast.op # "none" /\ alast.ok
        => /\ arena._blocks # <<>>
           /\ arena._alloc_ptr + arena._alloc_bytes_remaining
                = BlockEnd(LastBlock(arena))

\* C13, amended: cursor and remaining describe a suffix of the standard
\* block opened last (null and 0 before the first one).  A call that
\* allocates no block keeps cursor + remaining; a call that opens a
\* standard block puts them in that block; a call that allocates a
\* dedicated block, then the block allocated last, leaves both as they were.
C13_CursorInCurrentStandardBlock ==
    [][ LET a == arena
            b == arena'
        IN  /\ \/ b._alloc_ptr = NullAddr /\ b._alloc_bytes_remaining = 0
               \/ \E i \in DOMAIN b._blocks :
                     /\ b._blocks[i].size = kBlockSize
                     /\ b._blocks[i].start <= b._alloc_ptr
                     /\ b._alloc_ptr + b._alloc_bytes_remaining
                          = BlockEnd(b._blocks[i])
            /\ Len(b._blocks) = Len(a._blocks)
                 => b._alloc_ptr + b._alloc_bytes_remaining
                      = a._alloc_ptr + a._alloc_bytes_remaining
            /\ Len(b._blocks) > Len(a._blocks)
                 => IF alast'.bytes > kBlockSize \div 4
                    THEN /\ LastBlock(b).size = alast'.bytes
                         /\ b._alloc_ptr = a._alloc_ptr
                         /\ b._alloc_bytes_remaining = a._alloc_bytes_remaining
                    ELSE /\ LastBlock(b).size = kBlockSize
                         /\ b._alloc_ptr + b._alloc_bytes_remaining
                              = BlockEnd(LastBlock(b))
      ]_vars

\* The last call got a dedicated block while the cursor stays inside the
\* standard block opened before it, part of which is used.
C13_Witness ==
    /\ alast.ok
    /\ Len(arena._blocks) >= 2
    /\ alast.result = LastBlock(arena).start
    /\ LastBlock(arena).size > kBlockSize \div 4
    /\ arena._alloc_ptr > arena._blocks[1].start
    /\ arena._alloc_ptr + arena._alloc_bytes_remaining
         = BlockEnd(arena._blocks[1])


\* Region r lies inside block b.
InBlock(r, b) == b.start <= r.p /\ r.p + r.n <= BlockEnd(b)

\* Regions r and q share no byte.
Disjoint(r, q) == r.p + r.n <= q.p \/ q.p + q.n <= r.p

C15_AlignedResultMultipleOf8 ==
    alast.op = "AllocateAligned" => alast.ok /\ alast.result % 8 = 0

\* An AllocateAligned call was served inside the block after padding, and
\* the last one, called with the cursor misaligned, from a dedicated block.
C15_Witness ==
    /\ alast.op = "AllocateAligned"
    /\ alast.ok
    /\ Len(arena._blocks) = 2
    /\ alast.result = LastBlock(arena).start
    /\ arena._alloc_ptr % 8 # 0
    /\ \E i \in DOMAIN returned, j \in DOMAIN returned :
          /\ j = i + 1
          /\ InBlock(returned[i], arena._blocks[1])
          /\ InBlock(returned[j], arena._blocks[1])
          /\ (returned[i].p + returned[i].n) % 8 # 0
          /\ returned[j].p > returned[i].p + returned[i].n
          /\ returned[j].p % 8 = 0

\* C16 as stated: a call asking for zero bytes, through Allocate or through
\* AllocateAligned, ends on a failed assertion, returns no pointer, and
\* leaves the cursor, the remaining bytes, the blocks and the usage as
\* they were.
C16_ZeroBytesAbortsUnchanged ==
    [][ ArenaAllocate(0) \/ ArenaAllocateAligned(0)
          => /\ ~alast'.ok
             /\ returned' = returned
             /\ arena' = arena
      ]_vars


\* C17: Next, Prev or GetKey called on an iterator whose _node is null
\* (as constructed, or after a move past the last or before the first
\* key) ends on the failed assertion: no load goes through the null
\* node, _node stays null, and nothing runs afterwards.
C17_InvalidIteratorAborts ==
    [][ /\ (IterNext \/ PrevBegin(max_height) \/ IterGetKey) /\ it_node = nullptr
              => /\ rpc' = "abort"
                 /\ it_node' = nullptr
        /\ (rpc = "abort" => UNCHANGED vars)
      ]_vars

\* GetKey has failed its assertion on an iterator over a full list: one
\* that Next or Prev moved off the list, or that was never positioned.
C17_Witness ==
    /\ rpc = "abort"
    /\ rop = "GetKey"
    /\ it_node = nullptr
    /\ nodes = Keys


\* C18: while nothing has been inserted, no Contains(k) has returned true
\* and the iterator is invalid: as constructed and after SeekToFirst,
\* Seek(t) and SeekToLast, each of which returns (no indeterminate load,
\* no assertion); it is never on the head.
C18_EmptyListNothingFound ==
    nodes = {}
        => /\ it_node = nullptr
           /\ rret = FALSE
           /\ rpc # "ub"
           /\ rpc = "abort" => rop \in {"Next", "Prev", "GetKey"}

\* SeekToLast has returned on a list with no node but the head.
C18_Witness ==
    /\ nodes = {}
    /\ Allocated = {head}
    /\ rop = "SeekToLast"
    /\ rpc = "idle"
    /\ it_node = nullptr


\* The last node of the level-L chain, from the head, whose key is below
\* key: the head when there is none.
LevelPredecessor(L, key) ==
    LET below == {n \in ChainSet(L) : n # UNINIT /\ GetKey(n) < key}
    IN  IF below = {} THEN head ELSE MaxOrNull(below)

\* C19 as stated: when FindGreaterOrEqual(key, prev) has returned inside
\* Insert, prev[L] is, for every level L below _max_height, the last node
\* of the level-L chain whose key is below key (the head when there is
\* none), and Insert never loads through an entry of prev that was not
\* assigned.
C19_PrevHoldsLevelPredecessors ==
    /\ wpc = "height"
         => \A L \in 0..(max_height - 1) : prev[L] = LevelPredecessor(L, wkey)
    /\ wpc \in {"alloc", "setnext", "publish"}
         => \A L \in 0..(height - 1) : prev[L] = LevelPredecessor(L, wkey)
    /\ wpc # "ub"


\* The levels whose chain from the head holds node n.
LevelsOf(n) == {L \in Levels : n \in ChainSet(L)}

\* C20: each publish step of Insert(key), at level i, finds the new node
\* on the chains of exactly the levels below i and leaves it on those of
\* exactly the levels 0..i (so level i comes before level i+1); when
\* Insert returns the new node is on exactly the levels 0..height-1; and
\* no step of Insert changes on which levels a node inserted before is, nor
\* the number of link slots it has (a node is named by its key, which
\* nothing writes).
C20_InsertLinksExactlyItsLevels ==
    [][ /\ InsertPublish
              => \A node \in {wkey} :
                    /\ LevelsOf(node) = 0..(wi - 1)
                    /\ LevelsOf(node)' = 0..wi
                    /\ wpc' = "idle" => LevelsOf(node)' = 0..(height - 1)
        /\ \A n \in Committed :
              /\ n \in nodes'
              /\ LevelsOf(n)' = LevelsOf(n)
              /\ DOMAIN next'[n] = DOMAIN next[n]
      ]_vars

\* Every key is inserted: key 2, of height 2, stands on level 0 between
\* two nodes of height 1 and alone on level 1.
C20_Witness ==
    /\ wpc = "idle"
    /\ LevelChain(0) = <<1, 2, 3>>
    /\ LevelChain(1) = <<2>>
    /\ DOMAIN next[1] = {0}
    /\ DOMAIN next[2] = {0, 1}
    /\ DOMAIN next[3] = {0}


\* The heights drawn so far: those of the nodes built, and the one the
\* running Insert has drawn.
DrawnHeights ==
    {Cardinality(DOMAIN next[n]) : n \in nodes}
        \cup (IF wpc \in {"alloc", "setnext", "publish"} THEN {height} ELSE {})

\* C21: in every state _max_height is between 1 and kMaxHeight, the head's
\* links at the levels from _max_height up are null, and _max_height is
\* the largest of 1 and the heights drawn so far (so it is that after each
\* Insert that returned); no step lowers _max_height.
C21_MaxHeightBoundedMonotone ==
    /\ [](/\ max_height \in 1..kMaxHeight
          /\ \A L \in Levels : L >= max_height => next[head][L] = nullptr
          /\ \A h \in DrawnHeights : h <= max_height
          /\ max_height = 1 \/ max_height \in DrawnHeights)
    /\ [][max_height' >= max_height]_vars

\* An Insert has drawn height 1 in a list whose _max_height is 2, and
\* _max_height is still 2.
C21_Witness ==
    /\ wpc = "alloc"
    /\ height = 1
    /\ max_height = 2
    /\ next[head][1] # nullptr


\* C22: no step takes a node off the level-L chain it is on, for any L;
\* Contains(k) returns true only when the level-0 links lead to k, and a
\* Contains(k) that began when they did returns true (so every one that
\* starts after a true answer); the node an iterator is on is on the
\* level-0 chain after every step.
C22_ReachableStaysReachable ==
    /\ [](it_node # nullptr => it_node \in Linked)
    /\ [][ /\ next' # next
                 => \A L \in Levels : OnLevel(L) \subseteq OnLevel(L)'
           /\ ContainsReturn /\ rret' => rkey \in Linked
           /\ ContainsReturn /\ rpc' = "idle" /\ snap # {} => rret'
         ]_vars

\* Contains has returned true for the key whose Insert is still linking
\* its node on level 1.
C22_Witness ==
    /\ rop = "Contains"
    /\ rpc = "idle"
    /\ rret
    /\ rkey = wkey
    /\ wpc = "setnext"
    /\ wi = 1
    /\ \E k \in nodes : k > wkey


\* Insert(k) has not been called: k has no node and no Insert(k) is running.
NotCalled(k) == k \notin nodes /\ ~(wpc # "idle" /\ wkey = k)

\* C23: a key whose Insert has returned is on the level-0 chain, so a
\* Contains(k) that begins after Insert(k) returned begins with k linked and
\* returns true; a Contains(k) that returns while Insert(k) has not been
\* called returns false.
C23_ContainsLinearizable ==
    /\ [](Committed \subseteq Linked)
    /\ [][ /\ \A k \in Targets :
                 (\E h \in StaleHeights : ContainsBegin(k, h))
                     /\ k \in Committed => snap' = {k}
           /\ ContainsReturn /\ snap # {} => rpc' = "idle" /\ rret'
           /\ ContainsReturn /\ NotCalled(rkey) => rpc' = "idle" /\ ~rret'
         ]_vars

\* Contains has returned false for a key never handed to Insert, in a
\* list that holds a larger key, while the writer links another node.
C23_Witness ==
    /\ rop = "Contains"
    /\ rpc = "idle"
    /\ ~rret
    /\ NotCalled(rkey)
    /\ \E k \in Committed : k > rkey
    /\ wpc = "setnext"


\* What is left of a running search: the levels below it and the keys
\* above the node it is on.
Rank == rlevel + (MaxKey - GetKey(rcur))

\* C24: the node and the level of a search change only inside
\* FindGreaterOrEqual, FindLessThan and FindLast, whose every iteration
\* that does not return either moves along the link of the present level
\* to a node with a larger key or goes down one level, so it lowers Rank,
\* which is never negative and which no step of the writer changes.
C24_SearchStepsDescend ==
    /\ [](rpc \in {"fge", "flt", "last"}
              => rlevel \in Levels /\ rcur \in Allocated /\ Rank >= 0)
    /\ [][ /\ rpc' = rpc /\ <<rcur, rlevel>>' # <<rcur, rlevel>>
                 => /\ rpc \in {"fge", "flt", "last"}
                    /\ Rank' < Rank
                    /\ \/ /\ rlevel' = rlevel
                          /\ rcur' = NodeNext(rcur, rlevel)
                          /\ rcur' \in nodes
                          /\ GetKey(rcur') > GetKey(rcur) \/ rcur = head
                       \/ /\ rlevel' = rlevel - 1
                          /\ rcur' = rcur
           /\ wvars' # wvars => UNCHANGED <<rcur, rlevel, rpc>>
         ]_vars

\* A FindLessThan is on a level above 0, on a node past the head, while
\* the writer is linking a node with a larger key.
C24_Witness ==
    /\ rpc = "flt"
    /\ rlevel > 0
    /\ rcur # head
    /\ wpc = "setnext"
    /\ wkey > rcur


\* A step of Contains or of an iterator operation.
ReaderStep ==
    \/ \E k \in Targets, h \in StaleHeights : ContainsBegin(k, h)
    \/ ContainsReturn
    \/ IterValid
    \/ IterGetKey
    \/ IterNext
    \/ \E h \in StaleHeights : PrevBegin(h)
    \/ PrevReturn
    \/ \E t \in Targets, h \in StaleHeights : SeekBegin(t, h)
    \/ SeekReturn
    \/ SeekToFirst
    \/ \E h \in StaleHeights : SeekToLastBegin(h)
    \/ SeekToLastReturn
    \/ FGELoop
    \/ FLTLoop
    \/ FindLastLoop

\* The order of the positions inside one call of Insert.
CallOrder ==
    {<<"idle", "height">>, <<"idle", "abort">>, <<"height", "alloc">>,
     <<"alloc", "setnext">>, <<"setnext", "publish">>,
     <<"publish", "setnext">>, <<"publish", "idle">>}

\* C25: no step of Contains or of an iterator operation changes a link,
\* _max_height, the generator or the arena; a step that changes one of them
\* is a step of Insert; and the arena changes exactly on the NewNode step,
\* which every call of Insert that returns passes once, by what one
\* AllocateAligned call for the node does.
C25_OnlyInsertWrites ==
    [][ /\ ReaderStep => UNCHANGED <<next, max_height, rnd, arena>>
        /\ <<next, max_height, rnd, arena>>' # <<next, max_height, rnd, arena>>
              => Writer
        /\ wpc' # wpc => <<wpc, wpc'>> \in CallOrder
        /\ arena' # arena <=> wpc = "alloc" /\ wpc' = "setnext"
        /\ arena' # arena
              => arena' = AllocateAligned(arena, NodeBytes(height)).arena
      ]_vars

\* Valid has answered true between two steps of the second Insert, whose
\* node has been allocated.
C25_Witness ==
    /\ rop = "Valid"
    /\ rret
    /\ it_node \in nodes
    /\ wpc = "setnext"
    /\ Cardinality(nodes) = 2


\* The bytes AllocateAligned skips to bring the cursor of a to a multiple
\* of BlockAlign.
Padding(a) ==
    LET offset == a._alloc_ptr % BlockAlign
    IN  IF offset = 0 THEN 0 ELSE BlockAlign - offset

\* The call of the step does not take its bytes from the current block:
\* Allocate asked for more than remains, or AllocateAligned for more than
\* remains after the padding.
NoFit(bytes) ==
    \/ ArenaAllocate(bytes) /\ bytes > arena._alloc_bytes_remaining
    \/ /\ ArenaAllocateAligned(bytes)
       /\ bytes + Padding(arena) > arena._alloc_bytes_remaining

\* The last call returned the start of a dedicated block, the block
\* allocated last.
LastWasDedicated ==
    /\ alast.ok
    /\ alast.bytes > kBlockSize \div 4
    /\ arena._blocks # <<>>
    /\ alast.result = LastBlock(arena).start

\* C26: a call whose bytes do not fit the current block and are more than
\* kBlockSize / 4 appends one block of exactly that many bytes, returns its
\* first byte and leaves cursor and remaining bytes as they were; a call
\* after it that fits is given bytes between the old cursor and the end of
\* the old current block, and allocates no block.
C26_LargeRequestLeavesCursor ==
    [][ \A bytes \in AllocSizes :
           /\ NoFit(bytes) /\ bytes > kBlockSize \div 4
                 => /\ alast'.ok
                    /\ arena'._blocks
                         = Append(arena._blocks,
                                  [start |-> alast'.result, size |-> bytes])
                    /\ arena'._alloc_ptr = arena._alloc_ptr
                    /\ arena'._alloc_bytes_remaining
                         = arena._alloc_bytes_remaining
           /\ (/\ LastWasDedicated
               /\ ArenaAllocate(bytes) \/ ArenaAllocateAligned(bytes)
               /\ bytes > 0
               /\ ~NoFit(bytes))
                 => /\ alast'.ok
                    /\ arena'._blocks = arena._blocks
                    /\ alast'.result >= arena._alloc_ptr
                    /\ alast'.result + bytes
                         <= arena._alloc_ptr + arena._alloc_bytes_remaining
                    /\ ~InBlock([p |-> alast'.result, n |-> bytes],
                                LastBlock(arena))
      ]_vars

\* A small request has been served from the first block, a standard one
\* partly used before, right after a call that got the dedicated second
\* block.
C26_Witness ==
    /\ Len(returned) >= 3
    /\ Len(arena._blocks) = 2
    /\ arena._blocks[1].size = kBlockSize
    /\ arena._blocks[2].size > kBlockSize \div 4
    /\ returned[Len(returned) - 1].p = arena._blocks[2].start
    /\ alast.ok
    /\ alast.bytes \in 1..(kBlockSize \div 4)
    /\ InBlock([p |-> alast.result, n |-> alast.bytes], arena._blocks[1])
    /\ alast.result > arena._blocks[1].start


\* The standard blocks of a that the cursor has left.
Abandoned(a) ==
    {j \in DOMAIN a._blocks :
        /\ a._blocks[j].size = kBlockSize
        /\ ~(/\ a._blocks[j].start <= a._alloc_ptr
              /\ a._alloc_ptr + a._alloc_bytes_remaining
                   = BlockEnd(a._blocks[j]))}

\* The first byte of block b after the regions of rs that lie in it.
TailStart(rs, b) ==
    LET ends == {rs[i].p + rs[i].n : i \in {k \in DOMAIN rs : InBlock(rs[k], b)}}
    IN  IF ends = {} THEN b.start
        ELSE CHOOSE e \in ends : \A f \in ends : f <= e

\* The bytes of block b after the regions of rs that lie in it.
UnusedTail(rs, b) ==
    [p |-> TailStart(rs, b), n |-> BlockEnd(b) - TailStart(rs, b)]

\* C27: a call whose bytes do not fit the current block and are at most
\* kBlockSize / 4 appends one block of kBlockSize bytes, returns its first
\* byte and leaves the cursor right after the bytes returned, with
\* kBlockSize less those bytes remaining; the block the cursor leaves
\* keeps as its tail the bytes from the old cursor on, and no call returns
\* a byte of the tail of a block the cursor has left.
C27_SmallRequestOpensStandardBlock ==
    [][ \A bytes \in AllocSizes :
           /\ NoFit(bytes) /\ bytes <= kBlockSize \div 4
                 => /\ alast'.ok
                    /\ arena'._blocks
                         = Append(arena._blocks,
                                  [start |-> alast'.result, size |-> kBlockSize])
                    /\ arena'._alloc_ptr = alast'.result + bytes
                    /\ arena'._alloc_bytes_remaining = kBlockSize - bytes
                    /\ \A j \in Abandoned(arena') \ Abandoned(arena) :
                          UnusedTail(returned', arena'._blocks[j])
                            = [p |-> arena._alloc_ptr,
                               n |-> arena._alloc_bytes_remaining]
           /\ (ArenaAllocate(bytes) \/ ArenaAllocateAligned(bytes)) /\ alast'.ok
                 => \A j \in Abandoned(arena) :
                       /\ j \in Abandoned(arena')
                       /\ Disjoint([p |-> alast'.result, n |-> bytes],
                                   UnusedTail(returned, arena._blocks[j]))
      ]_vars

\* A request of exactly kBlockSize / 4 bytes that did not fit has opened
\* the second standard block, leaving unused bytes at the end of the
\* first, and a later call has been served from the second block.
C27_Witness ==
    /\ Len(returned) = 4
    /\ Len(arena._blocks) = 2
    /\ arena._blocks[1].size = kBlockSize
    /\ arena._blocks[2].size = kBlockSize
    /\ returned[3] = [p |-> arena._blocks[2].start, n |-> kBlockSize \div 4]
    /\ UnusedTail(returned, arena._blocks[1]).n > 0
    /\ returned[4].n > 0
    /\ InBlock(returned[4], arena._blocks[2])
    /\ arena._alloc_bytes_remaining
         = kBlockSize - kBlockSize \div 4 - returned[4].n


\* C28: Allocate(bytes) with 0 < bytes <= _alloc_bytes_remaining returns
\* the cursor, moves the cursor up by bytes and takes bytes off the
\* remaining count; the blocks and MemoryUsage() stay as they were.
C28_AllocateInBlock ==
    [][ \A bytes \in AllocSizes :
           (/\ ArenaAllocate(bytes)
            /\ 0 < bytes
            /\ bytes <= arena._alloc_bytes_remaining)
              => /\ alast'.ok
                 /\ alast'.result = arena._alloc_ptr
                 /\ arena'._alloc_ptr = arena._alloc_ptr + bytes
                 /\ arena'._alloc_bytes_remaining
                      = arena._alloc_bytes_remaining - bytes
                 /\ arena'._blocks = arena._blocks
                 /\ MemoryUsage(arena') = MemoryUsage(arena)
      ]_vars

\* The one block of the arena has served a call before, and then an
\* Allocate, whose bytes end at the cursor.
C28_Witness ==
    /\ alast.op = "Allocate"
    /\ alast.ok
    /\ Len(arena._blocks) = 1
    /\ arena._blocks[1].size = kBlockSize
    /\ Len(returned) >= 2
    /\ alast.result > arena._blocks[1].start
    /\ alast.result + alast.bytes = arena._alloc_ptr
    /\ arena._alloc_bytes_remaining > 0

=============================================================================
